---- MODULE Spec2Model ----
(***************************************************************************)
(* VisionAi front end: the App container (emotion history, exports,        *)
(* controls), the CameraPanel sampler, the EmotionChart statistics, the    *)
(* VideoUpload panel and the ChatPanel.                                    *)
(*                                                                         *)
(* Numbers are fixed point: the integer n stands for n / Scale, so a score *)
(* of 0.8 is 8000 and the percentage 80.00 is 800000.  A JavaScript object *)
(* used as a mapping is a sequence of <<key, value>> pairs in insertion    *)
(* order (the order Object.entries returns); a JavaScript object with      *)
(* optional fields is a record, a missing field being absent from its      *)
(* DOMAIN.  A string is a sequence of tokens.                              *)
(***************************************************************************)
EXTENDS Integers, Sequences, FiniteSets, TLC

\* ------------------------------------------------------------------ bounds
MaxHistory == 2
MaxOrphans == 1
MaxExchanges == 1

\* ------------------------------------------------------- program constants
TopBars == 5
TooltipTop == 3
AvgLabels == 4
CsvColumns == 11

\* The period of the CameraPanel's setInterval, 3000 ms, in seconds
IntervalSeconds == 3

Scale == 100 * 100

\* The 7 labels, in the key order of emotionColors / emotionEmojis.
Labels == <<"happy", "sad", "angry", "surprise", "fear", "disgust", "neutral">>

LabelSet == {Labels[i] : i \in 1..Len(Labels)}

\* The four series the chart draws, in the order of its <Line> elements.
ChartLines == <<"happy", "sad", "angry", "surprise">>

\* ------------------------------------------------------ JavaScript helpers
Keys(m) == {m[i][1] : i \in 1..Len(m)}

\* k in m (the property is present, so m[k] is not undefined)
Has(m, k) == k \in Keys(m)

\* m[k] for a mapping m that has the key k
Get(m, k) == m[CHOOSE i \in 1..Len(m) : m[i][1] = k][2]

\* (m[k] || 0): a missing key, and a zero, give 0
GetOrZero(m, k) == IF Has(m, k) THEN Get(m, k) ELSE 0

Digit(d) == ToString(d)

\* x.toFixed(2) for x >= 0: round to two decimals, print both of them.
ToFixed2(x) ==
    LET q == (x + (Scale \div 200)) \div (Scale \div 100)
    IN  <<ToString(q \div 100), ".", Digit((q % 100) \div 10), Digit(q % 10)>>

\* (m[k] * 100).toFixed(2) + '%': undefined * 100 is NaN, printed "NaN".
PercentOfKey(m, k) ==
    (IF Has(m, k) THEN ToFixed2(Get(m, k) * 100) ELSE <<"NaN">>) \o <<"%">>

\* (x * 100).toFixed(2) + '%' for a number x
Percent(x) == ToFixed2(x * 100) \o <<"%">>

\* (num / den).toFixed(0) for num >= 0, den > 0: round half up.
ToFixed0Quot(num, den) == <<ToString((2 * num + den * Scale) \div (2 * den * Scale))>>

\* Array.prototype.slice(0, n)
Slice(s, n) == SubSeq(s, 1, IF n < Len(s) THEN n ELSE Len(s))

\* Array.prototype.join(sep) for an array of strings (token sequences)
RECURSIVE Join(_, _)
Join(parts, sep) ==
    IF Len(parts) = 0 THEN <<>>
    ELSE IF Len(parts) = 1 THEN parts[1]
    ELSE parts[1] \o <<sep>> \o Join(Tail(parts), sep)

\* String.prototype.split(sep): the pieces of s between the separators.
Split(s, sep) ==
    LET at    == {i \in 1..Len(s) : s[i] = sep}
        \* the k-th separator; 0 before the first, Len(s) + 1 after the last
        cut(k) == IF k = 0 THEN 0
                  ELSE IF k > Cardinality(at) THEN Len(s) + 1
                  ELSE CHOOSE i \in at : Cardinality({j \in at : j < i}) = k - 1
    IN  [k \in 1..(Cardinality(at) + 1) |-> SubSeq(s, cut(k - 1) + 1, cut(k) - 1)]

\* Mutant: an unstable sort that puts a later equal value first
RECURSIVE InsertDesc_Unstable(_, _)
InsertDesc_Unstable(sorted, p) ==
    IF Len(sorted) = 0 THEN <<p>>
    ELSE IF Head(sorted)[2] > p[2]
         THEN <<Head(sorted)>> \o InsertDesc_Unstable(Tail(sorted), p)
    ELSE <<p>> \o sorted

\* Array.prototype.sort((a, b) => b[1] - a[1]) on <<key, value>> pairs: a
\* stable sort by descending value (insertion keeps equal values in order).
RECURSIVE InsertDesc(_, _)
InsertDesc(sorted, p) ==
    IF Len(sorted) = 0 THEN <<p>>
    ELSE IF Head(sorted)[2] >= p[2] THEN <<Head(sorted)>> \o InsertDesc(Tail(sorted), p)
    ELSE <<p>> \o sorted

RECURSIVE SortDescFrom(_, _)
SortDescFrom(rest, sorted) ==
    IF Len(rest) = 0 THEN sorted
    ELSE SortDescFrom(Tail(rest), InsertDesc(sorted, Head(rest)))

SortDesc(entries) == SortDescFrom(entries, <<>>)


\* ------------------------------------------------------------ environment
\* The browser's locale decides Date.prototype.toLocaleString: en-US prints
\* "1/1/1970, 12:00:01 AM" (a comma between date and time), sv-SE prints
\* "1970-01-01 00:00:01" (none).
Locales == {"en-US", "sv-SE"}

\* new Date(ts).toLocaleString() in the given locale
ToLocaleString(ts, loc) ==
    IF loc = "en-US"
    THEN <<"date", ToString(ts), ",", " ", "time", ToString(ts)>>
    ELSE <<"date", ToString(ts), " ", "time", ToString(ts)>>

\* new Date(ts).toISOString()
ToISOString(ts) == <<"iso", ToString(ts)>>

\* --------------------------------------------------- App: export handlers
NoFile == [kind |-> "none"]

CsvHeaders ==
    << <<"Timestamp">>, <<"Time">>, <<"Dominant Emotion">>, <<"Confidence">>,
       <<"Happy">>, <<"Sad">>, <<"Angry">>, <<"Surprise">>, <<"Fear">>,
       <<"Disgust">>, <<"Neutral">> >>

\* One element of `rows` in handleExportCSV: the 11 fields of an entry.
CsvRow(entry, loc) ==
    << <<ToString(entry.timestamp)>>,
       ToLocaleString(entry.timestamp, loc),
       <<entry.emotion>>,
       Percent(entry.confidence),
       PercentOfKey(entry.emotions, "happy"),
       PercentOfKey(entry.emotions, "sad"),
       PercentOfKey(entry.emotions, "angry"),
       PercentOfKey(entry.emotions, "surprise"),
       PercentOfKey(entry.emotions, "fear"),
       PercentOfKey(entry.emotions, "disgust"),
       PercentOfKey(entry.emotions, "neutral") >>

\* csvContent: [headers, ...rows].map(row => row.join(',')).join('\n')
CsvContent(history, loc) ==
    LET rows  == [i \in 1..Len(history) |-> CsvRow(history[i], loc)]
        lines == [i \in 1..(Len(history) + 1) |->
                     Join(IF i = 1 THEN CsvHeaders ELSE rows[i - 1], ",")]
    IN  Join(lines, "\n")

\* Mutant: no early return, an empty history exports the header line alone
ExportCSVFile_NoEarlyReturn(history, loc) ==
    [kind |-> "csv", content |-> CsvContent(history, loc)]

\* What handleExportCSV hands to the download link: nothing for an empty
\* history (the early return), else the csv text.
ExportCSVFile(history, loc) ==
    IF Len(history) = 0 THEN NoFile
    ELSE [kind |-> "csv", content |-> CsvContent(history, loc)]

\* Mutant: the duration is taken first minus last
JsonData_Reversed(history) ==
    [ exportDate   |-> <<"iso", "now">>,
      totalRecords |-> Len(history),
      duration     |-> IF Len(history) > 0
                       THEN history[1].timestamp - history[Len(history)].timestamp
                       ELSE 0,
      data         |-> [i \in 1..Len(history) |->
                          [ timestamp       |-> history[i].timestamp,
                            time            |-> ToISOString(history[i].timestamp),
                            dominantEmotion |-> history[i].emotion,
                            confidence      |-> history[i].confidence,
                            allEmotions     |-> history[i].emotions ]] ]

\* Mutant: the confidence is exported as a percentage, entry.confidence * 100
JsonData_PercentConfidence(history) ==
    [ exportDate   |-> <<"iso", "now">>,
      totalRecords |-> Len(history),
      duration     |-> IF Len(history) > 0
                       THEN history[Len(history)].timestamp - history[1].timestamp
                       ELSE 0,
      data         |-> [i \in 1..Len(history) |->
                          [ timestamp       |-> history[i].timestamp,
                            time            |-> ToISOString(history[i].timestamp),
                            dominantEmotion |-> history[i].emotion,
                            confidence      |-> history[i].confidence * 100,
                            allEmotions     |-> history[i].emotions ]] ]

\* jsonData of handleExportJSON
JsonData(history) ==
    [ exportDate   |-> <<"iso", "now">>,
      totalRecords |-> Len(history),
      duration     |-> IF Len(history) > 0
                       THEN history[Len(history)].timestamp - history[1].timestamp
                       ELSE 0,
      data         |-> [i \in 1..Len(history) |->
                          [ timestamp       |-> history[i].timestamp,
                            time            |-> ToISOString(history[i].timestamp),
                            dominantEmotion |-> history[i].emotion,
                            confidence      |-> history[i].confidence,
                            allEmotions     |-> history[i].emotions ]] ]

\* What handleExportJSON hands to the download link.
ExportJSONFile(history) ==
    IF Len(history) = 0 THEN NoFile
    ELSE [kind |-> "json", content |-> JsonData(history)]

\* ------------------------------------------------ EmotionChart: statistics
\* chartData: one point per entry, each label's score (0 when missing) * 100
ChartData(history) ==
    [i \in 1..Len(history) |->
        [ time      |-> i - 1,
          happy     |-> GetOrZero(history[i].emotions, "happy") * 100,
          sad       |-> GetOrZero(history[i].emotions, "sad") * 100,
          angry     |-> GetOrZero(history[i].emotions, "angry") * 100,
          surprise  |-> GetOrZero(history[i].emotions, "surprise") * 100,
          fear      |-> GetOrZero(history[i].emotions, "fear") * 100,
          disgust   |-> GetOrZero(history[i].emotions, "disgust") * 100,
          neutral   |-> GetOrZero(history[i].emotions, "neutral") * 100 ]]

\* Mutant: the reducer overwrites the accumulator, (acc, curr) => curr[emotion]
RECURSIVE Reduce_Overwrite(_, _, _)
Reduce_Overwrite(data, emotion, acc) ==
    IF Len(data) = 0 THEN acc
    ELSE Reduce_Overwrite(Tail(data), emotion, Head(data)[emotion])

\* chartData.reduce((acc, curr) => acc + curr[emotion], 0)
RECURSIVE Reduce(_, _, _)
Reduce(data, emotion, acc) ==
    IF Len(data) = 0 THEN acc
    ELSE Reduce(Tail(data), emotion, acc + Head(data)[emotion])

\* The labels that get an average: Object.entries(emotionColors).slice(0, 4)
AvgStatLabels == Slice(Labels, AvgLabels)

\* The "avg" legend: rendered only for a non-empty history; avgValue is the
\* quotient sum / chartData.length, shown with toFixed(0).
AvgStats(history) ==
    IF Len(history) > 0
    THEN [i \in 1..Len(AvgStatLabels) |->
            LET sum == Reduce(ChartData(history), AvgStatLabels[i], 0)
            IN  [ emotion |-> AvgStatLabels[i],
                  num     |-> sum,
                  den     |-> Len(ChartData(history)),
                  shown   |-> ToFixed0Quot(sum, Len(ChartData(history))) ]]
    ELSE <<>>

\* CustomTooltip: the chart's payload (one item per <Line>, in line order)
\* sorted by descending value, first three.
TooltipTopN(point) ==
    Slice(SortDesc([i \in 1..Len(ChartLines) |-> <<ChartLines[i], point[ChartLines[i]]>>]),
          TooltipTop)

\* ------------------------------------------------- CameraPanel: top bars
\* Object.entries(scores).sort((a, b) => b[1] - a[1]).slice(0, n)
TopN(scores, n) == Slice(SortDesc(scores), n)

\* The emotion bars the panel draws
EmotionBars(scores) == TopN(scores, TopBars)

\* The labels of a list of <<label, value>> pairs
LabelsOf(pairs) == [i \in 1..Len(pairs) |-> pairs[i][1]]


\* ------------------------------------------------------------------ inputs
\* What detectEmotion can resolve to: the backend's answer (all_emotions in
\* the backend's own key order), the catch branch's object with an error
\* field, or an empty body.
ResultHappy ==
    [ emotion |-> "happy", confidence |-> 9000,
      all_emotions |-> << <<"sad", 9000>>, <<"happy", 9000>>, <<"neutral", 1000>> >> ]

ResultSad == [ emotion |-> "sad", confidence |-> 6000 ]

ResultSurprise ==
    [ emotion |-> "surprise", confidence |-> 7000,
      all_emotions |-> << <<"angry", 100>>, <<"disgust", 0>>, <<"fear", 0>>,
                          <<"happy", 2000>>, <<"sad", 100>>, <<"surprise", 7000>>,
                          <<"neutral", 800>> >> ]

ResultError == [ emotion |-> "neutral", confidence |-> 0, error |-> "Network Error" ]

ResultNull == [ null |-> TRUE ]

DetectResults == {ResultHappy, ResultSad, ResultSurprise, ResultError, ResultNull}

\* Mutant: the error field is not looked at, if (result)
IsOk_ErrorIgnored(result) == result /= ResultNull

\* result && !result.error
IsOk(result) == result /= ResultNull /\ "error" \notin DOMAIN result

\* result.all_emotions || {}
AllEmotionsOf(result) ==
    IF "all_emotions" \in DOMAIN result THEN result.all_emotions ELSE <<>>

\* The entries a sampler can hand to onEmotionHistory (EmotionHistoryEntry).
EntryA ==
    [ timestamp |-> 1000, emotion |-> "happy", confidence |-> 8000,
      emotions |-> << <<"happy", 8000>>, <<"sad", 1000>>, <<"neutral", 1000>> >> ]

EntryB ==
    [ timestamp |-> 5500, emotion |-> "sad", confidence |-> 6000,
      emotions |-> << <<"angry", 100>>, <<"disgust", 0>>, <<"fear", 0>>,
                      <<"happy", 1000>>, <<"sad", 6000>>, <<"surprise", 100>>,
                      <<"neutral", 2800>> >> ]

Entries == {EntryA, EntryB}

\* An entry whose numbers are not probabilities: confidence and score 1.5.
\* EmotionHistoryEntry types both as number, and no code narrows them.
EntryOver ==
    [ timestamp |-> 9000, emotion |-> "angry", confidence |-> 3 * (Scale \div 2),
      emotions |-> << <<"angry", 3 * (Scale \div 2)>> >> ]

\* Everything onEmotionHistory accepts
OfferedEntries == Entries \cup {EntryOver}

\* Files the user can pick: file.type.startsWith('video/') holds of the first.
VideoFile == "clip.mp4"

TextFile == "notes.txt"

PickableFiles == {VideoFile, TextFile}

IsVideo(file) == file = VideoFile

Null == "null"

\* What the user can have in the chat input.
Texts == {"", " ", "hi"}

\* String.prototype.trim
Trim(text) == IF text = " " THEN "" ELSE text

Greeting ==
    [ role |-> "assistant", content |-> "Hello!", emotion |-> "neutral" ]

Apology == "Sorry, I encountered an error. Please try again."

NoRequest == [ kind |-> "none" ]

\* What sendChatMessage can resolve to for a request: the backend's answer,
\* or the catch branch's apology with an error field.
ChatResponses(request) ==
    { [ response |-> "reply", emotion_detected |-> request.emotion ],
      [ response |-> Apology, error |-> "Network Error" ] }

\* --------------------------------------------------------------- the state
VARIABLES
    currentEmotion,   \* App
    emotionHistory,   \* App
    isAnalyzing,      \* App
    inputMode,        \* App
    selectedVideo,    \* App
    emotion,          \* CameraPanel
    confidence,       \* CameraPanel
    allEmotions,      \* CameraPanel
    isDetecting,      \* CameraPanel: its detectEmotion call is in flight
    orphans,          \* detectEmotion calls in flight of unmounted CameraPanels
    selectedFile,     \* VideoUpload
    messages,         \* ChatPanel
    inputValue,       \* ChatPanel
    isLoading,        \* ChatPanel
    chatRequest,      \* ChatPanel: the sendChatMessage call in flight
    download,         \* the file the last export handed to the browser
    locale,           \* the browser's locale
    appended,         \* the entries passed to onEmotionHistory since the last reset
    elapsed           \* seconds since the mounted CameraPanel's interval was set or last fired

appVars == <<currentEmotion, emotionHistory, isAnalyzing, inputMode, selectedVideo>>

cameraVars == <<emotion, confidence, allEmotions, isDetecting, orphans>>

chatVars == <<messages, inputValue, isLoading, chatRequest>>

envVars == <<download, locale>>

vars == <<appVars, cameraVars, selectedFile, chatVars, envVars, appended, elapsed>>

\* Mutant: the CameraPanel is rendered in both modes
CameraMounted_BothModes == TRUE

\* CameraPanel is rendered only in webcam mode.
CameraMounted == inputMode = "webcam"

Init ==
    /\ currentEmotion = "neutral"
    /\ emotionHistory = <<>>
    /\ isAnalyzing = TRUE
    /\ inputMode = "webcam"
    /\ selectedVideo = Null
    /\ emotion = "neutral"
    /\ confidence = 0
    /\ allEmotions = <<>>
    /\ isDetecting = FALSE
    /\ orphans = 0
    /\ selectedFile = Null
    /\ messages = <<Greeting>>
    /\ inputValue = ""
    /\ isLoading = FALSE
    /\ chatRequest = NoRequest
    /\ download = NoFile
    /\ locale \in Locales
    /\ appended = <<>>
    /\ elapsed = 0


\* A render of the App hands the CameraPanel a new onEmotionDetected (the
\* handlers are plain functions of the App's body), and a change of
\* isDetecting or onEmotionDetected makes a new captureAndDetect: either way
\* the interval effect, whose dependency it is, clears its interval and sets
\* a new one.
RestartInterval == elapsed' = 0

\* ------------------------------------------------------------ App handlers
\* handleEmotionDetected
HandleEmotionDetected(detected) ==
    /\ currentEmotion' = detected

\* Mutant: the new entry is put first, [data, ...prev]
HistoryAfterAppend_Prepend(prev, data) == <<data>> \o prev

\* The updater of handleEmotionHistory: (prev) => [...prev, data]
HistoryAfterAppend(prev, data) == prev \o <<data>>

\* handleEmotionHistory, the App's onEmotionHistory callback
HandleEmotionHistory(data) ==
    /\ Len(emotionHistory) < MaxHistory
    /\ emotionHistory' = HistoryAfterAppend(emotionHistory, data)
    /\ appended' = Append(appended, data)
    /\ RestartInterval
    /\ UNCHANGED <<currentEmotion, isAnalyzing, inputMode, selectedVideo>>
    /\ UNCHANGED <<cameraVars, selectedFile, chatVars, envVars>>

\* Mutant: Start begins a fresh session, clearing the history
HandleToggleAnalysis_Restart ==
    /\ isAnalyzing' = ~isAnalyzing
    /\ emotionHistory' = IF isAnalyzing THEN emotionHistory ELSE <<>>
    /\ RestartInterval
    /\ UNCHANGED <<currentEmotion, inputMode, selectedVideo>>
    /\ UNCHANGED <<cameraVars, selectedFile, chatVars, envVars, appended>>

\* handleToggleAnalysis (the Start / Pause button)
HandleToggleAnalysis ==
    /\ isAnalyzing' = ~isAnalyzing
    /\ RestartInterval
    /\ UNCHANGED <<currentEmotion, emotionHistory, inputMode, selectedVideo>>
    /\ UNCHANGED <<cameraVars, selectedFile, chatVars, envVars, appended>>

\* Mutant: the reset drops the latest entry only, prev.slice(0, -1)
HistoryAfterReset_DropLast(prev) == SubSeq(prev, 1, Len(prev) - 1)

\* Mutant: the reset drops the oldest entry only, prev.slice(1)
HistoryAfterReset_DropFirst(prev) == IF Len(prev) = 0 THEN prev ELSE Tail(prev)

\* The history handleReset stores once the user has confirmed.
HistoryAfterReset(prev) == <<>>

\* Mutant: the answer to window.confirm is not looked at
HandleReset_NoConfirm(confirmed) ==
    /\ emotionHistory' = HistoryAfterReset(emotionHistory)
    /\ currentEmotion' = "neutral"
    /\ appended' = <<>>
    /\ RestartInterval
    /\ UNCHANGED <<isAnalyzing, inputMode, selectedVideo>>
    /\ UNCHANGED <<cameraVars, selectedFile, chatVars, envVars>>

\* Mutant: a confirmed reset also drops the detection in flight
HandleReset_CancelsDetection(confirmed) ==
    /\ IF confirmed
       THEN /\ emotionHistory' = HistoryAfterReset(emotionHistory)
            /\ currentEmotion' = "neutral"
            /\ appended' = <<>>
            /\ isDetecting' = FALSE
            /\ orphans' = 0
            /\ RestartInterval
       ELSE UNCHANGED <<emotionHistory, currentEmotion, appended, isDetecting, orphans, elapsed>>
    /\ UNCHANGED <<isAnalyzing, inputMode, selectedVideo>>
    /\ UNCHANGED <<emotion, confidence, allEmotions, selectedFile, chatVars, envVars>>

\* handleReset (the Reset button); confirmed is the answer to window.confirm
HandleReset(confirmed) ==
    /\ IF confirmed
       THEN /\ emotionHistory' = HistoryAfterReset(emotionHistory)
            /\ currentEmotion' = "neutral"
            /\ appended' = <<>>
            /\ RestartInterval
       ELSE UNCHANGED <<emotionHistory, currentEmotion, appended, elapsed>>
    /\ UNCHANGED <<isAnalyzing, inputMode, selectedVideo>>
    /\ UNCHANGED <<cameraVars, selectedFile, chatVars, envVars>>

\* ControlPanel: both export buttons carry disabled={emotionCount === 0}
ExportDisabled == Len(emotionHistory) = 0

\* handleExportCSV, reached by a click on the CSV button
HandleExportCSV ==
    /\ LET file == ExportCSVFile(emotionHistory, locale)
       IN  IF ExportDisabled \/ file = NoFile
           THEN UNCHANGED download
           ELSE download' = file
    /\ UNCHANGED <<appVars, cameraVars, selectedFile, chatVars, locale, appended, elapsed>>

\* handleExportJSON, reached by a click on the JSON button
HandleExportJSON ==
    /\ LET file == ExportJSONFile(emotionHistory)
       IN  IF ExportDisabled \/ file = NoFile
           THEN UNCHANGED download
           ELSE download' = file
    /\ UNCHANGED <<appVars, cameraVars, selectedFile, chatVars, locale, appended, elapsed>>

\* handleVideoSelect
HandleVideoSelect(file) ==
    /\ selectedVideo' = file

\* handleModeChange (the Webcam / Upload buttons).  Leaving webcam mode
\* unmounts the CameraPanel: its state is dropped, its interval cleared, and a
\* detectEmotion call in flight goes on without it.
HandleModeChange(mode) ==
    /\ inputMode' = mode
    /\ selectedVideo' = IF mode = "webcam" THEN Null ELSE selectedVideo
    /\ IF CameraMounted /\ mode = "video"
       THEN /\ isDetecting => orphans < MaxOrphans
            /\ orphans' = IF isDetecting THEN orphans + 1 ELSE orphans
            /\ emotion' = "neutral"
            /\ confidence' = 0
            /\ allEmotions' = <<>>
            /\ isDetecting' = FALSE
       ELSE UNCHANGED cameraVars
    /\ IF mode = inputMode THEN UNCHANGED elapsed ELSE RestartInterval
    /\ UNCHANGED <<currentEmotion, emotionHistory, isAnalyzing>>
    /\ UNCHANGED <<selectedFile, chatVars, envVars, appended>>

\* ------------------------------------------------------------- CameraPanel
\* A second passes on the mounted panel's interval.
Tick ==
    /\ CameraMounted
    /\ elapsed < IntervalSeconds
    /\ elapsed' = elapsed + 1
    /\ UNCHANGED <<appVars, cameraVars, selectedFile, chatVars, envVars, appended>>

\* The interval fires and runs captureAndDetect; shot tells whether
\* getScreenshot returned an image.  Without one, isDetecting is set and
\* cleared in the same synchronous run.
CaptureAndDetect(shot) ==
    /\ CameraMounted
    /\ isDetecting' = IF ~isDetecting /\ shot THEN TRUE ELSE isDetecting
    /\ RestartInterval
    /\ UNCHANGED <<emotion, confidence, allEmotions, orphans>>
    /\ UNCHANGED <<appVars, selectedFile, chatVars, envVars, appended>>

\* The interval's callback, run when its period has passed
IntervalFires(shot) ==
    /\ elapsed = IntervalSeconds
    /\ CaptureAndDetect(shot)

\* Mutant: setIsDetecting(false) sits inside the success branch, a failed or
\* empty result leaves the flag set
DetectResolved_FlagKeptOnFailure(result) ==
    /\ CameraMounted
    /\ isDetecting
    /\ IF IsOk(result)
       THEN /\ emotion' = result.emotion
            /\ confidence' = result.confidence
            /\ allEmotions' = AllEmotionsOf(result)
            /\ HandleEmotionDetected(result.emotion)
            /\ isDetecting' = FALSE
       ELSE UNCHANGED <<emotion, confidence, allEmotions, currentEmotion, isDetecting>>
    /\ RestartInterval
    /\ UNCHANGED <<emotionHistory, isAnalyzing, inputMode, selectedVideo, orphans>>
    /\ UNCHANGED <<selectedFile, chatVars, envVars, appended>>

\* captureAndDetect after the await: detectEmotion resolved with result
DetectResolved(result) ==
    /\ CameraMounted
    /\ isDetecting
    /\ IF IsOk(result)
       THEN /\ emotion' = result.emotion
            /\ confidence' = result.confidence
            /\ allEmotions' = AllEmotionsOf(result)
            /\ HandleEmotionDetected(result.emotion)
       ELSE UNCHANGED <<emotion, confidence, allEmotions, currentEmotion>>
    /\ isDetecting' = FALSE
    /\ RestartInterval
    /\ UNCHANGED <<emotionHistory, isAnalyzing, inputMode, selectedVideo, orphans>>
    /\ UNCHANGED <<selectedFile, chatVars, envVars, appended>>

\* The same continuation in a CameraPanel that was unmounted meanwhile: its
\* own state setters do nothing, the App's callback still runs.
OrphanResolved(result) ==
    /\ orphans > 0
    /\ orphans' = orphans - 1
    /\ IF IsOk(result)
       THEN /\ HandleEmotionDetected(result.emotion)
            /\ IF result.emotion = currentEmotion
               THEN UNCHANGED elapsed
               ELSE RestartInterval
       ELSE UNCHANGED <<currentEmotion, elapsed>>
    /\ UNCHANGED <<emotion, confidence, allEmotions, isDetecting>>
    /\ UNCHANGED <<emotionHistory, isAnalyzing, inputMode, selectedVideo>>
    /\ UNCHANGED <<selectedFile, chatVars, envVars, appended>>

\* ------------------------------------------------------------- VideoUpload
\* handleFileSelect (the file input, rendered in video mode only)
HandleFileSelect(file) ==
    /\ inputMode = "video"
    /\ IF IsVideo(file)
       THEN /\ selectedFile' = file
            /\ HandleVideoSelect(file)
       ELSE UNCHANGED <<selectedFile, selectedVideo>>
    /\ UNCHANGED <<currentEmotion, emotionHistory, isAnalyzing, inputMode>>
    /\ UNCHANGED <<cameraVars, chatVars, envVars, appended, elapsed>>

\* handleDrop (a file dropped on the upload area)
HandleDrop(file) ==
    /\ inputMode = "video"
    /\ IF IsVideo(file)
       THEN /\ selectedFile' = file
            /\ HandleVideoSelect(file)
       ELSE UNCHANGED <<selectedFile, selectedVideo>>
    /\ UNCHANGED <<currentEmotion, emotionHistory, isAnalyzing, inputMode>>
    /\ UNCHANGED <<cameraVars, chatVars, envVars, appended, elapsed>>

\* --------------------------------------------------------------- ChatPanel
\* The input's onChange (the input is disabled while loading)
SetInputValue(text) ==
    /\ ~isLoading
    /\ inputValue' = text
    /\ UNCHANGED <<messages, isLoading, chatRequest>>
    /\ UNCHANGED <<appVars, cameraVars, selectedFile, envVars, appended, elapsed>>

UserMessages == Len(SelectSeq(messages, LAMBDA m : m.role = "user"))

\* Mutant: the request is sent without the emotion, sendChatMessage(userMessage),
\* so that the api's default 'neutral' goes out
HandleSendMessage_DefaultEmotion ==
    /\ UserMessages < MaxExchanges
    /\ IF Trim(inputValue) = "" \/ isLoading
       THEN UNCHANGED chatVars
       ELSE /\ inputValue' = ""
            /\ messages' = Append(messages,
                    [ role |-> "user", content |-> Trim(inputValue),
                      emotion |-> currentEmotion ])
            /\ isLoading' = TRUE
            /\ chatRequest' = [ kind |-> "request", message |-> Trim(inputValue),
                                emotion |-> "neutral" ]
    /\ UNCHANGED <<appVars, cameraVars, selectedFile, envVars, appended, elapsed>>

\* Mutant: the input is not trimmed before the emptiness test, if (!inputValue || isLoading)
HandleSendMessage_BlankSent ==
    /\ UserMessages < MaxExchanges
    /\ IF inputValue = "" \/ isLoading
       THEN UNCHANGED chatVars
       ELSE /\ inputValue' = ""
            /\ messages' = Append(messages,
                    [ role |-> "user", content |-> Trim(inputValue),
                      emotion |-> currentEmotion ])
            /\ isLoading' = TRUE
            /\ chatRequest' = [ kind |-> "request", message |-> Trim(inputValue),
                                emotion |-> currentEmotion ]
    /\ UNCHANGED <<appVars, cameraVars, selectedFile, envVars, appended, elapsed>>

\* handleSendMessage up to the await
HandleSendMessage ==
    /\ UserMessages < MaxExchanges
    /\ IF Trim(inputValue) = "" \/ isLoading
       THEN UNCHANGED chatVars
       ELSE /\ inputValue' = ""
            /\ messages' = Append(messages,
                    [ role |-> "user", content |-> Trim(inputValue),
                      emotion |-> currentEmotion ])
            /\ isLoading' = TRUE
            /\ chatRequest' = [ kind |-> "request", message |-> Trim(inputValue),
                                emotion |-> currentEmotion ]
    /\ UNCHANGED <<appVars, cameraVars, selectedFile, envVars, appended, elapsed>>

\* The assistant message built from a response; emotion_detected is
\* undefined in the catch branch's object.
AssistantMessage(response) ==
    IF "emotion_detected" \in DOMAIN response
    THEN [ role |-> "assistant", content |-> response.response,
           emotion |-> response.emotion_detected ]
    ELSE [ role |-> "assistant", content |-> response.response ]

\* Mutant: sendChatMessage has no catch, a failed request throws out of
\* handleSendMessage before setIsLoading(false)
ChatResolvedWith_Throws(response) ==
    /\ chatRequest /= NoRequest
    /\ IF "error" \in DOMAIN response
       THEN UNCHANGED <<messages, isLoading>>
       ELSE /\ messages' = Append(messages, AssistantMessage(response))
            /\ isLoading' = FALSE
    /\ chatRequest' = NoRequest
    /\ UNCHANGED inputValue
    /\ UNCHANGED <<appVars, cameraVars, selectedFile, envVars, appended, elapsed>>

\* handleSendMessage after the await: sendChatMessage resolved to response
ChatResolvedWith(response) ==
    /\ chatRequest /= NoRequest
    /\ messages' = Append(messages, AssistantMessage(response))
    /\ isLoading' = FALSE
    /\ chatRequest' = NoRequest
    /\ UNCHANGED inputValue
    /\ UNCHANGED <<appVars, cameraVars, selectedFile, envVars, appended, elapsed>>

\* handleSendMessage after the await, whatever sendChatMessage resolved to
ChatResolved ==
    /\ chatRequest /= NoRequest
    /\ \E response \in ChatResponses(chatRequest) : ChatResolvedWith(response)

\* ---------------------------------------------------------- specifications
\* The controls, the upload panel and the chat
UserAction ==
    \/ HandleToggleAnalysis
    \/ \E confirmed \in BOOLEAN : HandleReset(confirmed)
    \/ HandleExportCSV
    \/ HandleExportJSON
    \/ \E mode \in {"webcam", "video"} : HandleModeChange(mode)
    \/ \E file \in PickableFiles : HandleFileSelect(file)
    \/ \E file \in PickableFiles : HandleDrop(file)
    \/ \E text \in Texts : SetInputValue(text)
    \/ HandleSendMessage
    \/ ChatResolved

\* The sampler as wired in the source
Sampler ==
    \/ \E shot \in BOOLEAN : CaptureAndDetect(shot)
    \/ \E result \in DetectResults : DetectResolved(result)
    \/ \E result \in DetectResults : OrphanResolved(result)

\* The application as wired in the source
Next == UserAction \/ Sampler

Spec == Init /\ [][Next]_vars

\* The App driven through all of its callbacks: onEmotionHistory is called
\* with entries, as the App's interface provides for.
StoreNext ==
    \/ \E data \in Entries : HandleEmotionHistory(data)
    \/ UserAction

StoreSpec == Init /\ [][StoreNext]_vars

\* The App's state under all that writes it: onEmotionDetected called by the
\* CameraPanel's cycles, onEmotionHistory called with any entry its parameter
\* admits, the Start / Pause and Reset buttons, the mode buttons and the
\* upload panel's file input.
IntakeNext ==
    \/ \E data \in OfferedEntries : HandleEmotionHistory(data)
    \/ Sampler
    \/ \E confirmed \in BOOLEAN : HandleReset(confirmed)
    \/ HandleToggleAnalysis
    \/ \E mode \in {"webcam", "video"} : HandleModeChange(mode)
    \/ \E file \in PickableFiles : HandleFileSelect(file)

IntakeSpec == Init /\ [][IntakeNext]_vars

\* The sampler on its clock: the interval's callback runs only when a full
\* period has passed since the interval was set or last fired, next to the
\* controls that render the App or unmount the panel.  (Spec leaves the
\* clock out: there the callback may run at any time.)
TimedNext ==
    \/ Tick
    \/ \E shot \in BOOLEAN : IntervalFires(shot)
    \/ \E result \in DetectResults : DetectResolved(result)
    \/ \E result \in DetectResults : OrphanResolved(result)
    \/ HandleToggleAnalysis
    \/ \E confirmed \in BOOLEAN : HandleReset(confirmed)
    \/ \E mode \in {"webcam", "video"} : HandleModeChange(mode)

TimedSpec == Init /\ [][TimedNext]_vars

\* The same with the HTTP call of a mounted panel eventually returning:
\* detectEmotion then resolves (its catch turns a failure into a result) and
\* the continuation of captureAndDetect runs.
TimedFairSpec ==
    TimedSpec /\ WF_vars(\E result \in DetectResults : DetectResolved(result))


\* ------------------------------------------------------------------ claims

\* C1: every successful detection cycle (detectEmotion resolves to a result
\* with no error field) appends exactly one observation to the emotion
\* history, so the store grows by one on each such cycle.
C1_SuccessfulCycleAppends ==
    [][(\E result \in DetectResults : IsOk(result) /\ DetectResolved(result))
          => Len(emotionHistory') = Len(emotionHistory) + 1]_vars

\* C2: a full traversal of the emotion history returns the observations in
\* exactly the order they were appended since the last reset: the i-th
\* appended observation is at index i, none missing, none twice.
C2_TraversalInAppendOrder ==
    /\ Len(emotionHistory) = Len(appended)
    /\ \A i \in 1..Len(appended) : emotionHistory[i] = appended[i]

\* Two different observations were appended, the later timestamp first.
C2_Witness ==
    /\ Len(emotionHistory) = 2
    /\ emotionHistory[1] = EntryB
    /\ emotionHistory[2] = EntryA

\* Every entry of old is in new at the same index.
KeepsEntries(old, new) ==
    /\ Len(new) >= Len(old)
    /\ \A i \in 1..Len(old) : new[i] = old[i]

\* C3: the store is append-only: every step (append, pause toggle, mode
\* change, video select, export, chat) keeps each stored observation at its
\* index with its contents, except a confirmed reset, which removes all.
C3_AppendOnly ==
    [][\/ KeepsEntries(emotionHistory, emotionHistory')
       \/ (HandleReset(TRUE) /\ emotionHistory' = <<>>)]_vars

\* A full store that has seen a pause, a mode change, a video selection, an
\* export and a chat exchange.
C3_Witness ==
    /\ Len(emotionHistory) = MaxHistory
    /\ ~isAnalyzing
    /\ selectedVideo = VideoFile
    /\ download /= NoFile
    /\ Len(messages) = 3

\* C4: after a confirmed reset the store size is 0 whatever it held, and a
\* confirmed reset of an empty store leaves the store as it was.
C4_ResetEmpties ==
    [][HandleReset(TRUE)
          => /\ Len(emotionHistory') = 0
             /\ (Len(emotionHistory) = 0 => emotionHistory' = emotionHistory)]_vars

\* A store that held exported observations and has been reset.
C4_Witness ==
    /\ Len(emotionHistory) = 0
    /\ download /= NoFile
    /\ download.kind = "csv"

\* The logical state of the store
StoreState(history) == IF Len(history) = 0 THEN "Empty" ELSE "NonEmpty"

\* C5: the store is Empty or NonEmpty; it starts Empty, an append leads to
\* NonEmpty from either state, a confirmed reset leads to Empty from either
\* state, and no other operation changes the store.
C5_TwoStateMachine ==
    /\ StoreState(emotionHistory) = "Empty"
    /\ [][/\ (\E data \in Entries : HandleEmotionHistory(data))
                => StoreState(emotionHistory') = "NonEmpty"
          /\ HandleReset(TRUE) => StoreState(emotionHistory') = "Empty"
          /\ emotionHistory' /= emotionHistory
                => \/ \E data \in Entries : HandleEmotionHistory(data)
                   \/ HandleReset(TRUE)]_vars

\* A NonEmpty store during a chat request, after a pause, a switch to video
\* mode and an export.
C5_Witness ==
    /\ StoreState(emotionHistory) = "NonEmpty"
    /\ isLoading
    /\ ~isAnalyzing
    /\ inputMode = "video"
    /\ download /= NoFile


\* The row export of an empty store as the claim has it: the header line.
HeaderOnlyCsv == [kind |-> "csv", content |-> Join(CsvHeaders, ",")]

\* C6 (as claimed): on an empty store the row export returns a header-only
\* result and the structured export a payload with totalRecords 0 and
\* duration 0; neither produces nothing.
C6_EmptyStoreExports ==
    Len(emotionHistory) = 0
        => /\ ExportCSVFile(emotionHistory, locale) = HeaderOnlyCsv
           /\ ExportJSONFile(emotionHistory) /= NoFile
           /\ ExportJSONFile(emotionHistory).content.totalRecords = 0
           /\ ExportJSONFile(emotionHistory).content.duration = 0

\* C6 (amended): on an empty store neither export produces anything: both
\* export buttons are disabled, both handlers return no file, and no step
\* taken from an empty store hands a file to the browser.
C6_EmptyStoreExportsNothing ==
    /\ [](Len(emotionHistory) = 0
            => /\ ExportDisabled
               /\ ExportCSVFile(emotionHistory, locale) = NoFile
               /\ ExportJSONFile(emotionHistory) = NoFile)
    /\ [][Len(emotionHistory) = 0 => download' = download]_vars

\* A just-cleared store: the last file is the JSON export made before the
\* reset.
C6_Witness ==
    /\ Len(emotionHistory) = 0
    /\ Len(appended) = 0
    /\ download.kind = "json"

\* The sum over the first n entries of a label's score as a percentage, a
\* missing label counting 0.
RECURSIVE SumPercent(_, _, _)
SumPercent(history, label, n) ==
    IF n = 0 THEN 0
    ELSE SumPercent(history, label, n - 1)
         + 100 * (IF \E i \in 1..Len(history[n].emotions) :
                         history[n].emotions[i][1] = label
                  THEN LET i == CHOOSE i \in 1..Len(history[n].emotions) :
                                    history[n].emotions[i][1] = label
                       IN  history[n].emotions[i][2]
                  ELSE 0)

\* C7 (as claimed): the averages cover each of the 7 labels, each the mean of
\* the label's score over the stored observations, zero-filled for an empty
\* store.
C7_AverageScoresAllLabels ==
    LET stats == AvgStats(emotionHistory)
    IN  /\ Len(stats) = Len(Labels)
        /\ \A i \in 1..Len(Labels) :
              /\ stats[i].emotion = Labels[i]
              /\ IF Len(emotionHistory) = 0
                 THEN stats[i].num = 0
                 ELSE stats[i].num * Len(emotionHistory)
                          = SumPercent(emotionHistory, Labels[i], Len(emotionHistory))
                            * stats[i].den

\* C7 (amended): the averages cover the first four labels only (happy, sad,
\* angry, surprise); each is the arithmetic mean, as a percentage, of the
\* label's score (0 when missing) over exactly the observations now in the
\* store; an empty store has no averages at all.
C7_AverageOfChartedLabels ==
    LET stats == AvgStats(emotionHistory)
    IN  IF Len(emotionHistory) = 0
        THEN stats = <<>>
        ELSE /\ LabelsOf([i \in 1..Len(stats) |-> <<stats[i].emotion, 0>>])
                    = <<"happy", "sad", "angry", "surprise">>
             /\ \A i \in 1..Len(stats) :
                   /\ stats[i].den = Len(emotionHistory)
                   /\ stats[i].num
                         = SumPercent(emotionHistory, stats[i].emotion, Len(emotionHistory))

\* Two different observations appended after a reset: the happy average is
\* (80 + 10) / 2 = 45 percent, and a label missing from one of them (angry) is
\* averaged with 0.
C7_Witness ==
    /\ emotionHistory = <<EntryA, EntryB>>
    /\ download /= NoFile
    /\ AvgStats(emotionHistory)[1].shown = <<"45">>
    /\ AvgStats(emotionHistory)[3].num = 100 * 100

\* The place of a label in the canonical order
CanonIndex(label) == CHOOSE i \in 1..Len(Labels) : Labels[i] = label

\* The pairs of scores by descending value, equal values ordered by
\* Before(i, j) on their indices: the first n.
RankedTop(scores, n, Before(_, _)) ==
    LET rank(i) == 1 + Cardinality({j \in 1..Len(scores) :
                          \/ scores[j][2] > scores[i][2]
                          \/ scores[j][2] = scores[i][2] /\ Before(j, i)})
        size == IF n < Len(scores) THEN n ELSE Len(scores)
    IN  [k \in 1..size |-> scores[CHOOSE i \in 1..Len(scores) : rank(i) = k]]

\* C8 (as claimed): topN returns the n highest labels by descending score,
\* equal scores in the canonical label order whatever their order in the
\* scores mapping.
C8_TopNCanonicalTies ==
    \A n \in 0..Len(Labels) :
        TopN(allEmotions, n)
            = RankedTop(allEmotions, n,
                  LAMBDA i, j : CanonIndex(allEmotions[i][1]) < CanonIndex(allEmotions[j][1]))

\* C8 (amended): topN returns the n highest labels by descending score, equal
\* scores in the order in which they appear in the scores mapping.
C8_TopNMappingOrderTies ==
    \A n \in 0..Len(Labels) :
        TopN(allEmotions, n) = RankedTop(allEmotions, n, LAMBDA i, j : i < j)

\* The panel shows {sad: 0.9, happy: 0.9, neutral: 0.1}: its top two are sad,
\* happy.
C8_Witness ==
    /\ allEmotions = ResultHappy.all_emotions
    /\ LabelsOf(TopN(allEmotions, 2)) = <<"sad", "happy">>
    /\ Len(EmotionBars(allEmotions)) = 3

\* C9: for a store with N >= 1 observations the row export has N + 1 rows, the
\* header first, then one row per observation in append order, and every row
\* has exactly the 11 columns when split on the comma.  (The empty store is
\* the subject of C6.)
C9_RowExportShape ==
    Len(emotionHistory) > 0
        => LET file == ExportCSVFile(emotionHistory, locale)
               rows == Split(file.content, "\n")
           IN  /\ file.kind = "csv"
               /\ Len(rows) = Len(emotionHistory) + 1
               /\ Split(rows[1], ",") = CsvHeaders
               /\ \A i \in 1..Len(emotionHistory) :
                     Split(rows[i + 1], ",")[1] = <<ToString(emotionHistory[i].timestamp)>>
               /\ \A r \in 1..Len(rows) : Len(Split(rows[r], ",")) = CsvColumns

ObservationOf(row) ==
    [ timestamp  |-> row.timestamp,
      emotion    |-> row.dominantEmotion,
      confidence |-> row.confidence,
      emotions   |-> row.allEmotions ]

\* The observations rebuilt from a data list, in its order
Reconstruct(data) == [i \in 1..Len(data) |-> ObservationOf(data[i])]

\* C11 (as claimed): for a store of any size, 0 and 1 included, the structured
\* export exists and the observations rebuilt from its data list are, in the
\* same order, the observations appended (timestamp, dominant emotion,
\* confidence, scores).
C11_RoundTripAnySize ==
    /\ ExportJSONFile(emotionHistory) /= NoFile
    /\ Reconstruct(ExportJSONFile(emotionHistory).content.data) = appended

\* C11 (amended): for a store of any size from 1 on, the observations rebuilt
\* from the data list of the structured export are, in the same order, the
\* observations appended since the last reset, and a downloaded export
\* rebuilds to a store that held it; an empty store has no structured export
\* to rebuild from.
C11_RoundTripNonEmpty ==
    /\ [](IF Len(appended) = 0
          THEN ExportJSONFile(emotionHistory) = NoFile
          ELSE /\ ExportJSONFile(emotionHistory).kind = "json"
               /\ Reconstruct(ExportJSONFile(emotionHistory).content.data) = appended)
    /\ [][(HandleExportJSON /\ download' /= download)
             => Reconstruct(download'.content.data) = appended]_vars

\* The structured export of a store of size 1 was downloaded, and rebuilds to
\* the one observation appended.
C11_Witness ==
    /\ Len(appended) = 1
    /\ download.kind = "json"
    /\ Len(download.content.data) = 1
    /\ ObservationOf(download.content.data[1]) = appended[1]

InUnit(x) == 0 <= x /\ x <= Scale

\* C13: in every reachable state every stored observation has its confidence
\* and each of its scores within [0.0, 1.0]: an out-of-range value is clamped
\* or rejected at append, never stored as is.
C13_StoredValuesInRange ==
    \A i \in 1..Len(emotionHistory) :
        /\ InUnit(emotionHistory[i].confidence)
        /\ \A j \in 1..Len(emotionHistory[i].emotions) :
              InUnit(emotionHistory[i].emotions[j][2])

\* The position of a label's column in a row of the row export: the seven
\* score columns follow Timestamp, Time, Dominant Emotion and Confidence.
ScoreColumn(k) == 4 + k

\* C14: for a stored observation whose scores omit one of the 7 labels, every
\* consumer takes the missing label as 0.0: the chart's point (from which the
\* averages are summed) has 0 for it, and the row export has the zero
\* percentage in its column, never a not-a-number.
C14_MissingLabelIsZero ==
    \A i \in 1..Len(emotionHistory) :
        \A k \in 1..Len(Labels) :
            ~Has(emotionHistory[i].emotions, Labels[k])
                => /\ ChartData(emotionHistory)[i][Labels[k]] = 0
                   /\ CsvRow(emotionHistory[i], locale)[ScoreColumn(k)] = Percent(0)

\* C15: the latest view tracks the store: whenever the store is non-empty the
\* current emotion is the dominant emotion of the most recently appended
\* observation, and whenever the store is empty (fresh or just reset) it is
\* neutral.
C15_LatestTracksStore ==
    IF Len(emotionHistory) = 0
    THEN currentEmotion = "neutral"
    ELSE currentEmotion = emotionHistory[Len(emotionHistory)].emotion

\* The detection call failed: detectEmotion's catch branch (or the backend's
\* own error handling) answered with an error field.
Failed(result) == "error" \in DOMAIN result

\* C16: when the detection call fails, the cycle's observation is the default
\* one (neutral, confidence 0.0, no scores): that is what the panel holds
\* after the cycle; and no error value ever reaches the store or the current
\* emotion.
C16_FailureSubstitutesDefault ==
    /\ [](/\ currentEmotion \in LabelSet
          /\ \A i \in 1..Len(emotionHistory) : ~Failed(emotionHistory[i]))
    /\ [][\A result \in DetectResults :
             (Failed(result) /\ DetectResolved(result))
                => /\ emotion' = "neutral"
                   /\ confidence' = 0
                   /\ allEmotions' = <<>>]_vars

\* A successful detection is delivered to the App: the continuation of
\* captureAndDetect, in a mounted or an unmounted panel, calls
\* onEmotionDetected with result.emotion.
Delivered(result) ==
    /\ ~Failed(result)
    /\ result /= ResultNull
    /\ DetectResolved(result) \/ OrphanResolved(result)

\* C17: every chat request carries the latest dominant emotion: the emotion
\* sent and the emotion tagged on the user's message both equal the current
\* emotion at the moment of sending; and the current emotion is the result of
\* the most recent successful detection since the last reset, or neutral if
\* there is none: it starts neutral, a confirmed reset makes it neutral, a
\* delivered result makes it that result's emotion, and nothing else changes
\* it.
C17_ChatCarriesLatestEmotion ==
    /\ currentEmotion = "neutral"
    /\ [][/\ (HandleSendMessage /\ chatRequest' /= chatRequest)
                => /\ chatRequest'.kind = "request"
                   /\ chatRequest'.emotion = currentEmotion
                   /\ messages'[Len(messages')].role = "user"
                   /\ messages'[Len(messages')].emotion = currentEmotion
          /\ \A result \in DetectResults :
                Delivered(result) => currentEmotion' = result.emotion
          /\ HandleReset(TRUE) => currentEmotion' = "neutral"
          /\ currentEmotion' /= currentEmotion
                => \/ \E result \in DetectResults : Delivered(result)
                   \/ HandleReset(TRUE)]_vars

\* A request in flight that was sent while the current emotion was happy, the
\* user's message tagged happy; a later detection has made it sad since.
C17_Witness ==
    /\ chatRequest /= NoRequest
    /\ chatRequest.emotion = "happy"
    /\ messages[Len(messages)].role = "user"
    /\ messages[Len(messages)].emotion = "happy"
    /\ currentEmotion = "sad"

\* C18: pause stops detection: in a step taken while isAnalyzing is false no
\* detection request is started, the sampler does not change the current
\* emotion, and no observation is appended.
C18_PauseStopsDetection ==
    [][~isAnalyzing
          => /\ ~(~isDetecting /\ isDetecting')
             /\ Sampler => currentEmotion' = currentEmotion
             /\ Len(emotionHistory') <= Len(emotionHistory)]_vars

\* C19: reset confirms before deleting: when the user declines, the history
\* and the current emotion are unchanged; when the user confirms, the history
\* becomes empty and the current emotion neutral; either way isAnalyzing,
\* inputMode and selectedVideo are unchanged.
C19_ResetConfirmsFirst ==
    [][/\ HandleReset(FALSE)
            => /\ emotionHistory' = emotionHistory
               /\ currentEmotion' = currentEmotion
       /\ HandleReset(TRUE)
            => /\ emotionHistory' = <<>>
               /\ currentEmotion' = "neutral"
       /\ (\E confirmed \in BOOLEAN : HandleReset(confirmed))
            => /\ isAnalyzing' = isAnalyzing
               /\ inputMode' = inputMode
               /\ selectedVideo' = selectedVideo]_vars

\* A paused session just after a confirmed reset: the store is empty again
\* and the current emotion neutral, while the panel still shows the happy it
\* had reported.
C19_Witness ==
    /\ Len(emotionHistory) = 0
    /\ currentEmotion = "neutral"
    /\ emotion = "happy"
    /\ ~isDetecting
    /\ ~isAnalyzing
    /\ selectedFile = VideoFile

\* C20: reset does not cancel a detection in flight: a confirmed reset leaves
\* every request in flight (the mounted panel's, and those of unmounted
\* panels) as it is; a request in flight can always complete; and a result it
\* delivers is taken by the App as at any other time, so that the current
\* emotion leaves neutral without a new detection being started.
C20_ResetKeepsInFlight ==
    /\ [](/\ isDetecting => ENABLED DetectResolved(ResultHappy)
          /\ orphans > 0 => ENABLED OrphanResolved(ResultHappy))
    /\ [][/\ HandleReset(TRUE)
                => /\ isDetecting' = isDetecting
                   /\ orphans' = orphans
          /\ \A result \in DetectResults :
                (Delivered(result) /\ currentEmotion = "neutral")
                    => currentEmotion' = result.emotion]_vars

\* After a confirmed reset (the App is back to neutral and empty, the panel
\* still shows the sad it reported before) with a request in flight.
C20_Witness ==
    /\ currentEmotion = "neutral"
    /\ Len(emotionHistory) = 0
    /\ emotion = "sad"
    /\ isDetecting
    /\ ENABLED DetectResolved(ResultHappy)

\* An event of the user interface that renders the App while the panel stays
\* mounted: the pause toggle, a confirmed reset, a current-emotion update by a
\* result that an unmounted panel's request delivers.
RendersApp ==
    \/ HandleToggleAnalysis
    \/ HandleReset(TRUE)
    \/ \E result \in DetectResults : OrphanResolved(result)

\* C21: the sampler runs on a fixed interval: while the panel is mounted and
\* no detection is in flight, the pause toggle, a reset, a current-emotion
\* update or any other render of the App neither restarts nor postpones the
\* interval timer (the time that has passed on it is kept), so that the next
\* detection attempt comes a period after the last one however often such
\* events happen.
C21_FixedIntervalTimer ==
    [][(CameraMounted /\ ~isDetecting /\ RendersApp) => elapsed' = elapsed]_vars

\* The chat request failed: sendChatMessage's catch branch answered.
ChatFailed(response) == "error" \in DOMAIN response

\* C22: when a chat request fails, exactly one assistant message with the
\* apology text (and nothing of the error) is appended after the user's
\* message and isLoading returns to false; and whenever isLoading is false
\* the input takes the next message.
C22_ChatFailureFallsBack ==
    /\ [](~isLoading => ENABLED SetInputValue("hi"))
    /\ [][chatRequest /= NoRequest
            => \A response \in ChatResponses(chatRequest) :
                  (ChatFailed(response) /\ ChatResolvedWith(response))
                      => /\ messages[Len(messages)].role = "user"
                         /\ messages[Len(messages)].content = chatRequest.message
                         /\ messages' = Append(messages,
                                [role |-> "assistant", content |-> Apology])
                         /\ ~isLoading'
                         /\ chatRequest' = NoRequest]_vars

\* A failed exchange is over: the apology follows the user's message, nothing
\* is loading, and the user has typed the next message.
C22_Witness ==
    /\ Len(messages) = 3
    /\ messages[2].role = "user"
    /\ messages[3] = [role |-> "assistant", content |-> Apology]
    /\ ~isLoading
    /\ chatRequest = NoRequest
    /\ inputValue = "hi"

\* The detection requests in flight: the mounted panel's, and those of
\* panels unmounted since
InFlight == (IF isDetecting THEN 1 ELSE 0) + orphans

\* C23: detection is sequential: in every reachable state, whatever the
\* interleaving of interval ticks, renders, pause toggles, resets and mode
\* switches, at most one detection request is in flight (so that results
\* cannot be delivered out of the order of their requests).
C23_OneDetectionInFlight == InFlight <= 1

\* C24: every detection attempt that sets isDetecting eventually clears it
\* again (the HTTP call returning), whether the detection succeeds or fails:
\* the panel is never left for good in the state that blocks later attempts.
C24_DetectingEventuallyCleared == isDetecting ~> ~isDetecting

\* A detection has come back (the panel shows its happy, which a reset has
\* since taken from the App), the flag is cleared and a full period has
\* passed: the next attempt is due.
C24_Witness ==
    /\ CameraMounted
    /\ ~isDetecting
    /\ emotion = "happy"
    /\ currentEmotion = "neutral"
    /\ elapsed = IntervalSeconds

\* C25: a failed detection cycle (the result carries an error field) and a
\* cycle with no screenshot leave the state as it was: the panel's emotion,
\* confidence and scores, the App's current emotion and the emotion history.
C25_FailedCycleChangesNothing ==
    [][/\ \A result \in DetectResults :
             (Failed(result) /\ (DetectResolved(result) \/ OrphanResolved(result)))
                => UNCHANGED <<emotion, confidence, allEmotions,
                               currentEmotion, emotionHistory>>
       /\ CaptureAndDetect(FALSE)
             => UNCHANGED <<emotion, confidence, allEmotions, isDetecting,
                            currentEmotion, emotionHistory>>]_vars

\* A request is in flight while the panel and the App hold the sad of the
\* last successful cycle and the store holds an observation: what a failed
\* cycle has to keep.
C25_Witness ==
    /\ isDetecting
    /\ emotion = "sad"
    /\ confidence = ResultSad.confidence
    /\ currentEmotion = "sad"
    /\ Len(emotionHistory) = 1
    /\ ENABLED DetectResolved(ResultError)

ShownFile == IF inputMode = "video" THEN selectedFile ELSE Null

\* C27: the upload panel and the App agree on the selected video: in every
\* reachable state the panel shows a file as selected if and only if the
\* App's selectedVideo is that file; after a switch to webcam mode and back
\* no file is shown as selected.
C27_UploadAgreesWithApp == ShownFile = selectedVideo

\* C28: while the input mode is video the camera panel is unmounted and its
\* interval cleared: no detection request is started from the moment the mode
\* becomes video until it is switched back to webcam (requests in flight
\* from before can only come back).
C28_NoDetectionInVideoMode ==
    /\ [](inputMode = "video"
            => /\ ~isDetecting
               /\ ~ENABLED Tick
               /\ \A shot \in BOOLEAN : ~ENABLED CaptureAndDetect(shot))
    /\ [][inputMode' = "video" => InFlight' <= InFlight]_vars

\* Video mode with a file selected, while a request issued before the switch
\* is still in flight.
C28_Witness ==
    /\ inputMode = "video"
    /\ selectedVideo = VideoFile
    /\ orphans = 1
    /\ ~isDetecting

\* C29: the emotion in the camera overlay and the emotion the chat uses are
\* the same: whenever the camera panel is mounted, its emotion state equals
\* the App's currentEmotion, after any sequence of detections, resets and
\* mode switches.
C29_OverlayMatchesChat == inputMode = "webcam" => emotion = currentEmotion

====
